---- MODULE Spec2Model ----
(***************************************************************************)
(* Orchestration of the toolers of an assembly (src/src/app/agents/main.py) *)
(* ToolerFactory.create_toolers, ToolerBase._execute, the three interact   *)
(* methods with their retry on ServiceResponseException, and the three     *)
(* strategies of ToolerOrchestrator.run_interaction.                       *)
(*                                                                         *)
(* Text is a sequence of characters, so that concatenation is \o.          *)
(* Toolers are numbered 1..N here; the source's zero-based index of        *)
(* tooler p is p - 1.                                                      *)
(***************************************************************************)
EXTENDS Integers, Sequences, FiniteSets, TLC

VARIABLES
    availableModels,  \* keys of the module-level AVAILABLE_MODELS registry
    arg,              \* run_interaction's `assembly` argument: an id or an Assembly
    strategy,         \* run_interaction's `strategy` argument
    prompt,           \* run_interaction's `prompt` argument
    runState,         \* "called", "running", "returned" or "failed"
    error,            \* the exception run_interaction raised, NoError if none
    result,           \* the value run_interaction returned (when runState = "returned")
    toolers,          \* the list of toolers this call assigned to self.toolers: the
                      \* list its strategy reads there at its start and goes through
    selfToolers,      \* self.toolers, the attribute of the orchestrator
    other,            \* a second run_interaction call under way on the orchestrator,
                      \* if any: its assembly and the list its strategy goes through
    kernelPlugins,    \* plugin names registered with the shared kernel of the run
    chat,             \* the ChatHistory the strategy created
    chatExists,       \* whether the strategy has created its ChatHistory
    pc,               \* per tooler: position of its interact call
    response,         \* per tooler: the local `response` of _execute
    fragments,        \* per tooler: fragments received from its current agent.invoke
    returned,         \* per tooler: the text interact returned
    finished,         \* the toolers whose interact returned, in the order they did (history)
    attempts,         \* per tooler: number of _execute calls made (history)
    sent,             \* per tooler: the messages of its latest agent.invoke call (history)
    failures,         \* number of exceptions the completion service raised so far (history)
    answers,          \* the local `answers` of _sequential_processing
    llmPc,            \* position of the reasoning agent's invoke
    llmSent,          \* the messages handed to the reasoning agent (history)
    llmResult,        \* the local `result` of _llm_processing
    llmTools,         \* the tool names the reasoning agent was built with (history)
    toolCalls,        \* number of tooler calls the reasoning agent's invoke made (history)
    subChat,          \* the ChatHistory argument of the latest such call
    notified,         \* the notify calls the mediator received, in order (history)
    toolResults,      \* the calls of the code-running tools and how each ended (history)
    notifyFailed,     \* the toolers whose notify call raised (history)
    runs,             \* number of run_interaction calls made on the orchestrator
    samplePc,         \* sample script: position of run_code_in_docker
    sampleChat,       \* sample script: the ChatHistory of run_code_in_docker
    sampleLast,       \* sample script: the fragment handled last (history)
    sampleRounds      \* sample script: number of agent.invoke calls made (history)

vars == << availableModels, arg, strategy, prompt, runState, error, result,
           toolers, selfToolers, other, kernelPlugins, chat, chatExists, pc, response, fragments,
           returned, finished, attempts, sent, failures, answers, llmPc, llmSent, llmResult,
           llmTools, toolCalls, subChat, notified, toolResults, notifyFailed, runs,
           samplePc, sampleChat, sampleLast, sampleRounds >>

(***************************************************************************)
(* Bounds of the model.                                                    *)
(***************************************************************************)
MaxFragments == 2
MaxFailures == 1
MaxToolCalls == 1
MaxToolRuns == 1
MaxRuns == 2
MaxRounds == 3

(***************************************************************************)
(* Inputs.                                                                 *)
(***************************************************************************)
\* "omitted": the caller leaves the argument out.
Strategies == {"parallel", "sequential", "llm", "turbo", "omitted"}
Prompts == {<<"s">>}
FullRegistry == {"default", "mini", "reasoning"}
ModelRegistries == {FullRegistry, {"default", "mini"}}

\* The completion service: the k-th fragment of a reply carries the k-th letter.
Alphabet == <<"a", "b", "c", "d", "e">>

FragmentText(k) == <<Alphabet[k]>>

AgentNames == <<"n1", "n2", "n3">>

\* The agents of an assembly, from their objectives and model ids.
AgentsWith(objectives, models) ==
    [i \in 1..Len(objectives) |->
        [id |-> i, name |-> AgentNames[i], objective |-> objectives[i], model_id |-> models[i]]]

\* The agents of an assembly, from their objectives: each on the default model.
AgentsOf(objectives) == AgentsWith(objectives, [i \in 1..Len(objectives) |-> "default"])

\* The objectives of the assemblies given inline.
ObjectiveLists ==
    { <<>>, <<"code">>, <<"audio">>, <<"analysis">>,
      <<"Graphics", "code">>, <<"analysis", "code">>,
      <<"code", "audio">>, <<"audio", "code">>,
      <<"code", "Graphics", "code">>, <<"code", "Graphics", "analysis">> }

\* Assemblies with an agent whose model_id names no entry of the registry.
UnknownModelAgents ==
    { AgentsWith(<<"code">>, <<"gpt-x">>),
      AgentsWith(<<"code", "Graphics">>, <<"mini", "gpt-x">>) }

Assemblies ==
    {[id |-> "inline", agents |-> AgentsOf(o)] : o \in ObjectiveLists}
        \cup {[id |-> "inline", agents |-> a] : a \in UnknownModelAgents}

\* The documents of the assembly container, by id.
StoredItems ==
    [x \in {"asm1"} |->
        [id |-> "asm1", avatars |-> AgentsOf(<<"code", "Graphics">>), topic_name |-> "t"]]

AssemblyIds == {"asm1", "nope"}

\* An exception: its class and the words of its message.
NoError == [type |-> "none", detail |-> <<>>]

MakeError(type, detail) == [type |-> type, detail |-> detail]

(***************************************************************************)
(* Pure parts.                                                             *)
(***************************************************************************)
\* str.lower() on the objective values above
Lower(s) == IF s = "Graphics" THEN "graphics" ELSE s

\* The fields Assembly declares with Field(...), all required.
AssemblyRequiredFields == {"id", "objective", "agents", "roles"}

\* The keyword arguments fetch_assembly passes to Assembly(...).
FetchedFields == {"id", "agents", "topic_name"}

\* Variant: an unknown id yields an assembly without agents.
FetchAssemblyDefault(id) ==
    IF id \notin DOMAIN StoredItems
    THEN [ok |-> TRUE, assembly |-> [id |-> id, agents |-> <<>>]]
    ELSE [ok |-> FALSE,
          error |-> MakeError("ValidationError", <<"Field required", "Assembly">>)]

FetchAssembly(id) ==
    IF id \notin DOMAIN StoredItems
    THEN [ok |-> FALSE, error |-> MakeError("ValueError", <<"Assembly not found", id>>)]
    ELSE IF ~(AssemblyRequiredFields \subseteq FetchedFields)
    THEN [ok |-> FALSE,
          error |-> MakeError("ValidationError", <<"Field required", "Assembly">>)]
    ELSE [ok |-> TRUE,
          assembly |-> [id |-> StoredItems[id].id, agents |-> StoredItems[id].avatars]]

\* run_interaction, up to the assembly it works on
Resolve(a) ==
    IF a.kind = "id" THEN FetchAssembly(a.id) ELSE [ok |-> TRUE, assembly |-> a.assembly]

VariantOf(objective) ==
    CASE Lower(objective) = "code" -> "CodeWriter"
      [] Lower(objective) = "graphics" -> "GraphWriter"
      [] Lower(objective) = "analysis" -> "Statistian"
      [] OTHER -> "unsupported"

\* __build_kernel: the service ids of the shared kernel, one per registry
\* entry (each service_id is its registry key)
BuildKernel(models) == models

\* __prepare: kernel.get_prompt_execution_settings_from_service_id finds the
\* service of that id in the kernel, or raises
HasSettings(services, model_id) == model_id \in services

RECURSIVE BuildToolersNormalising(_, _)
\* Variant: the objective of the agent record is put in lower case.
BuildToolersNormalising(agents, acc) ==
    IF agents = <<>>
    THEN [ok |-> TRUE, toolers |-> acc]
    ELSE IF VariantOf(Head(agents).objective) = "unsupported"
    THEN [ok |-> FALSE,
          error |-> MakeError("ValueError", <<"Unsupported objective", Head(agents).objective>>)]
    ELSE IF ~HasSettings(BuildKernel(availableModels), Head(agents).model_id)
    THEN [ok |-> FALSE,
          error |-> MakeError("KernelServiceNotFoundError",
                              <<"Service not found", Head(agents).model_id>>)]
    ELSE BuildToolersNormalising(
             Tail(agents),
             Append(acc, [variant |-> VariantOf(Head(agents).objective),
                          tooler |-> [Head(agents) EXCEPT !.objective = Lower(@)],
                          mediator |-> FALSE]))

RECURSIVE BuildToolers(_, _)
\* the loop of create_toolers over agents, acc the toolers built so far
BuildToolers(agents, acc) ==
    IF agents = <<>>
    THEN [ok |-> TRUE, toolers |-> acc]
    ELSE IF VariantOf(Head(agents).objective) = "unsupported"
    THEN [ok |-> FALSE,
          error |-> MakeError("ValueError", <<"Unsupported objective", Head(agents).objective>>)]
    ELSE IF ~HasSettings(BuildKernel(availableModels), Head(agents).model_id)
    THEN [ok |-> FALSE,
          error |-> MakeError("KernelServiceNotFoundError",
                              <<"Service not found", Head(agents).model_id>>)]
    ELSE BuildToolers(Tail(agents),
                      Append(acc, [variant |-> VariantOf(Head(agents).objective),
                                   tooler |-> Head(agents),
                                   mediator |-> FALSE]))

RECURSIVE BuildToolersSkipping(_, _)
\* Variant: an agent with an unsupported objective is passed over.
BuildToolersSkipping(agents, acc) ==
    IF agents = <<>>
    THEN [ok |-> TRUE, toolers |-> acc]
    ELSE IF VariantOf(Head(agents).objective) = "unsupported"
    THEN BuildToolersSkipping(Tail(agents), acc)
    ELSE BuildToolersSkipping(Tail(agents),
                              Append(acc, [variant |-> VariantOf(Head(agents).objective),
                                           tooler |-> Head(agents),
                                           mediator |-> FALSE]))

CreateToolersSkipping(assembly) == BuildToolersSkipping(assembly.agents, <<>>)

CreateToolers(assembly) == BuildToolers(assembly.agents, <<>>)

VariantTools(variant) ==
    CASE variant = "CodeWriter" -> {"CodeRunnerPlugin"}
      [] variant = "GraphWriter" -> {"SeabornPlugin"}
      [] variant = "Statistian" -> {"StatisticalAnalysisPlugin", "ResearchPlugin"}

\* The arguments ResearchPlugin.__init__ requires without a default, and the
\* arguments Statistian.interact passes to it.
ResearchPluginRequiredArgs == {"bing_subscription_key"}
ResearchPluginGivenArgs == {}

\* The list an interact builds for add_tools: ok is FALSE where a constructor
\* of the list raises, and then add_tools is not called.
ConstructTools(variant) ==
    IF "ResearchPlugin" \in VariantTools(variant)
           /\ ~(ResearchPluginRequiredArgs \subseteq ResearchPluginGivenArgs)
    THEN [ok |-> FALSE,
          error |-> MakeError("TypeError", <<"missing required argument",
                                             "bing_subscription_key">>)]
    ELSE [ok |-> TRUE, tools |-> VariantTools(variant)]

\* Variant: a tool whose name the kernel holds is registered beside it.
AddToolsBesideOld(plugins, tools) ==
    plugins \cup {IF t \in plugins THEN t \o "_2" ELSE t : t \in tools}

\* add_tools: kernel.add_plugin(tool, <class name>) for each tool; the
\* kernel keeps its plugins by name, and a name it holds is assigned anew
AddTools(plugins, tools) == plugins \cup tools

VariantTemplate(variant) ==
    CASE variant = "CodeWriter" -> "code.jinja"
      [] variant = "GraphWriter" -> "graphic.jinja"
      [] variant = "Statistian" -> "profile.jinja"

\* The rendered prompt, as text: what the template is given. code.jinja is
\* given the prompt and one name per plugin of the kernel, each the class
\* name of a dictionary key ("str"); the other templates are given the prompt.
Render(variant, p, plugins) ==
    <<VariantTemplate(variant)>> \o p \o
        (IF variant = "CodeWriter" THEN [i \in 1..Cardinality(plugins) |-> "str"] ELSE <<>>)

\* Variant: a task writes over the entry another task appended last.
AddMessageOverwriting(log, role, content, by) ==
    IF log # <<>> /\ log[Len(log)].by # by
    THEN [log EXCEPT ![Len(log)] = [role |-> role, content |-> content, by |-> by]]
    ELSE Append(log, [role |-> role, content |-> content, by |-> by])

\* Variant: the message is put at the front of the history.
AddMessageAtFront(log, role, content, by) ==
    <<[role |-> role, content |-> content, by |-> by]>> \o log

\* chat.add_message; `by` records the appending tooler (0: the orchestrator)
AddMessage(log, role, content, by) ==
    Append(log, [role |-> role, content |-> content, by |-> by])

\* Variant: only the latest message is sent.
SentLatestOnly(log) == IF log = <<>> THEN log ELSE <<log[Len(log)]>>

\* messages=chat.messages
SentMessages(log) == log

\* Variant: the key counts from one.
SequentialEntryOneBased(index, text) ==
    [key |-> [prefix |-> "agent_", index |-> index + 1], value |-> text]

\* {f"agent_{index}": result}
SequentialEntry(index, text) == [key |-> [prefix |-> "agent_", index |-> index], value |-> text]

\* Variant: the results in the order the tasks completed.
GatherAsCompleted(texts) == [k \in 1..Len(finished) |-> texts[finished[k]]]

\* what asyncio.gather yields: the tasks' results in the order they were given
GatherResults(texts) == texts

IsPrefix(s, t) == Len(s) <= Len(t) /\ SubSeq(t, 1, Len(s)) = s

N == Len(toolers)

\* The value of run_interaction's `strategy` parameter: "parallel" by default.
Strategy == IF strategy = "omitted" THEN "parallel" ELSE strategy

\* The exceptions the collaborators of the toolers may raise in a run: one
\* more in the sequential strategy than in the others.
FailureBudget == IF Strategy = "sequential" THEN MaxFailures + 1 ELSE MaxFailures

(***************************************************************************)
(* Initial state: run_interaction has been called on a new orchestrator.   *)
(***************************************************************************)
RunArguments ==
    {[kind |-> "id", id |-> x] : x \in AssemblyIds}
        \cup {[kind |-> "inline", assembly |-> a] : a \in Assemblies}

\* The registry is varied for the strategy that looks a service up in it;
\* the interleavings of the parallel strategy are explored for two tasks.
Init ==
    /\ arg \in RunArguments
    /\ strategy \in Strategies
    /\ availableModels \in (IF strategy = "llm" THEN ModelRegistries ELSE {FullRegistry})
    /\ strategy = "parallel" /\ arg.kind = "inline" => Len(arg.assembly.agents) <= 2
    /\ strategy = "omitted" => arg.kind = "inline" /\ Len(arg.assembly.agents) <= 1
    /\ prompt \in Prompts
    /\ runState = "called"
    /\ error = NoError
    /\ result = <<>>
    /\ toolers = <<>>
    /\ selfToolers = <<>>
    /\ other = <<>>
    /\ kernelPlugins = {}
    /\ chat = <<>>
    /\ chatExists = FALSE
    /\ pc = <<>>
    /\ response = <<>>
    /\ fragments = <<>>
    /\ returned = <<>>
    /\ finished = <<>>
    /\ attempts = <<>>
    /\ sent = <<>>
    /\ failures = 0
    /\ answers = <<>>
    /\ llmPc = "none"
    /\ llmSent = <<>>
    /\ llmResult = <<>>
    /\ llmTools = <<>>
    /\ toolCalls = 0
    /\ subChat = <<>>
    /\ notified = <<>>
    /\ toolResults = <<>>
    /\ notifyFailed = {}
    /\ runs = 1
    /\ samplePc = "none"
    /\ sampleChat = <<>>
    /\ sampleLast = "none"
    /\ sampleRounds = 0

(***************************************************************************)
(* run_interaction: resolve, create the toolers, dispatch.                 *)
(***************************************************************************)
Fail(e) ==
    /\ runState' = "failed"
    /\ error' = e

inputs == << availableModels, arg, strategy, prompt >>
toolerVars == << pc, response, fragments, returned, finished, attempts, sent >>
llmVars == << llmPc, llmSent, llmResult >>
callVars == << llmTools, toolCalls, subChat >>
sampleVars == << samplePc, sampleChat, sampleLast, sampleRounds >>

\* fetch_assembly raises
RunFetchFails ==
    /\ runState = "called"
    /\ ~Resolve(arg).ok
    /\ Fail(Resolve(arg).error)
    /\ UNCHANGED << inputs, other, runs, sampleVars, notifyFailed, toolResults, callVars, notified, result, toolers, selfToolers, kernelPlugins, chat, chatExists,
                    toolerVars, failures, answers, llmVars >>

\* create_toolers raises
RunCreateFails ==
    /\ runState = "called"
    /\ Resolve(arg).ok
    /\ ~CreateToolers(Resolve(arg).assembly).ok
    /\ Fail(CreateToolers(Resolve(arg).assembly).error)
    /\ UNCHANGED << inputs, other, runs, sampleVars, notifyFailed, toolResults, callVars, notified, result, toolers, selfToolers, kernelPlugins, chat, chatExists,
                    toolerVars, failures, answers, llmVars >>

\* create_toolers returns and self.toolers is assigned; the kernel the call
\* built holds no plugin yet.  No await lies between the assignment and the
\* place where the strategy reads self.toolers (the argument list of gather,
\* the enumerate of the sequential loop, the plugins of the reasoning
\* kernel), so the strategy of the call holds the list the call assigned.
Created ==
    /\ runState = "called"
    /\ Resolve(arg).ok
    /\ CreateToolers(Resolve(arg).assembly).ok
    /\ selfToolers' = CreateToolers(Resolve(arg).assembly).toolers
    /\ toolers' = selfToolers'
    /\ kernelPlugins' = {}

ResetToolerVars ==
    /\ pc' = [i \in 1..Len(toolers') |-> "idle"]
    /\ response' = [i \in 1..Len(toolers') |-> <<>>]
    /\ fragments' = [i \in 1..Len(toolers') |-> 0]
    /\ returned' = [i \in 1..Len(toolers') |-> <<>>]
    /\ finished' = <<>>
    /\ attempts' = [i \in 1..Len(toolers') |-> 0]
    /\ sent' = [i \in 1..Len(toolers') |-> <<>>]

\* Variant: the strategy is looked up before the assembly is fetched and the
\* toolers are created.
RunUnknownStrategyFirst ==
    /\ runState = "called"
    /\ Strategy \notin {"parallel", "sequential", "llm"}
    /\ Fail(MakeError("AttributeError", <<"no attribute", Strategy>>))
    /\ UNCHANGED << inputs, other, runs, sampleVars, notifyFailed, toolResults, callVars, notified, result, toolers, selfToolers, kernelPlugins, chat, chatExists,
                    toolerVars, failures, answers, llmVars >>

\* getattr(self, f"_{strategy}_processing") finds no such method
RunUnknownStrategy ==
    /\ Created
    /\ Strategy \notin {"parallel", "sequential", "llm"}
    /\ Fail(MakeError("AttributeError", <<"no attribute", Strategy>>))
    /\ ResetToolerVars
    /\ UNCHANGED << inputs, other, runs, sampleVars, notifyFailed, toolResults, callVars, notified, result, chat, chatExists,
                    failures, answers, llmVars >>

\* Variant: the strategy goes on with the history it finds.
RunStrategyKeepingChat ==
    /\ Created
    /\ Strategy \in {"parallel", "sequential"}
    /\ runState' = "running"
    /\ chat' = chat
    /\ chatExists' = TRUE
    /\ answers' = <<>>
    /\ ResetToolerVars
    /\ UNCHANGED << inputs, other, runs, sampleVars, notifyFailed, toolResults, callVars, notified, error, result, failures, llmVars >>

\* _parallel_processing and _sequential_processing, up to their first await
RunStrategy ==
    /\ Created
    /\ Strategy \in {"parallel", "sequential"}
    /\ runState' = "running"
    /\ chat' = <<>>
    /\ chatExists' = TRUE
    /\ answers' = <<>>
    /\ ResetToolerVars
    /\ UNCHANGED << inputs, other, runs, sampleVars, notifyFailed, toolResults, callVars, notified, error, result, failures, llmVars >>

\* Variant: without a "reasoning" entry the default service is taken.
ReasoningServiceOrDefault(models) ==
    IF "reasoning" \in models THEN "reasoning"
    ELSE IF "default" \in models THEN "default" ELSE "none"

\* AVAILABLE_MODELS.get("reasoning", None)
ReasoningService(models) == IF "reasoning" \in models THEN "reasoning" ELSE "none"

\* _llm_processing when AVAILABLE_MODELS has no "reasoning"
RunLlmNoReasoning ==
    /\ Created
    /\ Strategy = "llm"
    /\ ReasoningService(availableModels) = "none"
    /\ Fail(MakeError("ValueError", <<"Reasoning service not found in available models.">>))
    /\ ResetToolerVars
    /\ UNCHANGED << inputs, other, runs, sampleVars, notifyFailed, toolResults, callVars, notified, result, chat, chatExists,
                    failures, answers, llmVars >>

\* [grader.tooler.name for grader in self.toolers]: the names reason.jinja is
\* given, which are the keys the toolers are registered under as plugins
LlmTools(ts) == [i \in 1..Len(ts) |-> ts[i].tooler.name]

\* Variant: the history opens with the instructions as a system entry.
LlmChatWithInstructions(p) ==
    AddMessage(AddMessage(<<>>, "system", <<"reason.jinja">>, 0), "user", p, 0)

\* chat = ChatHistory(); chat.add_message(<user, prompt>)
LlmChat(p) == AddMessage(<<>>, "user", p, 0)

\* Variant: the run returns while a tooler the service called is under way.
LlmReturnWhileCalling ==
    /\ llmPc \in {"awaiting", "calling"}
    /\ llmPc' = "done"
    /\ runState' = "returned"
    /\ result' = <<llmResult>>
    /\ UNCHANGED << inputs, other, runs, sampleVars, notifyFailed, toolResults, callVars, notified, error, toolers, selfToolers, kernelPlugins,
                    chat, chatExists, toolerVars, failures, answers, llmSent, llmResult >>

\* Variant: an assembly without agents is refused.
RunLlmRefusingNoAgents ==
    /\ Created
    /\ Strategy = "llm"
    /\ toolers' = <<>>
    /\ Fail(MakeError("ValueError", <<"No agents to reason with.">>))
    /\ ResetToolerVars
    /\ UNCHANGED << inputs, other, runs, sampleVars, notifyFailed, toolResults, callVars, notified, result, chat, chatExists,
                    failures, answers, llmVars >>

\* _llm_processing, up to the first await of agent.invoke
RunLlm ==
    /\ Created
    /\ Strategy = "llm"
    /\ ReasoningService(availableModels) # "none"
    /\ runState' = "running"
    /\ chat' = LlmChat(prompt)
    /\ chatExists' = TRUE
    /\ llmSent' = SentMessages(chat')
    /\ llmPc' = "awaiting"
    /\ llmResult' = <<>>
    /\ llmTools' = LlmTools(toolers')
    /\ toolCalls' = 0
    /\ subChat' = <<>>
    /\ ResetToolerVars
    /\ UNCHANGED << inputs, other, runs, sampleVars, notifyFailed, toolResults, notified, error, result, failures, answers >>

(***************************************************************************)
(* interact and _execute of tooler i.  A step runs from one await to the   *)
(* next: the tasks of a run share one event loop.                          *)
(***************************************************************************)
\* Variant: the sequential loop goes on to the next tooler after an exception.
MayEnterPastFailure(i) ==
    /\ i \in 1..N
    /\ pc[i] = "idle"
    /\ \/ Strategy = "sequential" /\ runState # "called"
          /\ \A j \in 1..(i - 1) : pc[j] \in {"done", "raised"}
       \/ Strategy = "parallel" /\ runState # "called" /\ \A j \in 1..(i - 1) : pc[j] # "idle"

\* Tooler i's interact may be entered: the sequential loop has reached it,
\* or its task (created by gather in tooler order, once the strategy runs) is
\* first in the queue.
MayEnter(i) ==
    /\ i \in 1..N
    /\ pc[i] = "idle"
    /\ \/ Strategy = "sequential" /\ runState = "running" /\ i = Len(answers) + 1
       \/ Strategy = "parallel" /\ runState # "called" /\ \A j \in 1..(i - 1) : pc[j] # "idle"

\* The ChatHistory the toolers of the run write to.
ToolerChat == IF Strategy = "llm" THEN subChat ELSE chat

SetToolerChat(log) ==
    IF Strategy = "llm"
    THEN subChat' = log /\ chat' = chat
    ELSE chat' = log /\ subChat' = subChat

\* Variant: the failure of one task of a parallel run cancels the others.
LeavesCancellingSiblings(i, e) ==
    /\ pc' = [j \in 1..N |->
                 IF j = i THEN "raised"
                 ELSE IF Strategy = "parallel" /\ pc[j] \in {"idle", "awaiting", "sleeping"}
                 THEN "cancelled"
                 ELSE pc[j]]
    /\ IF Strategy = "llm"
       THEN llmPc' = "awaiting" /\ UNCHANGED << runState, error >>
       ELSE /\ llmPc' = llmPc
            /\ IF runState = "running" THEN Fail(e) ELSE UNCHANGED << runState, error >>

\* An exception leaves tooler i's interact.  In the sequential strategy it
\* leaves run_interaction; in the parallel strategy gather hands the first
\* exception to run_interaction and the other tasks go on; in the llm strategy
\* the kernel's function invocation hands its text to the completion service
\* and the reasoning agent's invoke goes on.
Leaves(i, e) ==
    /\ pc' = [pc EXCEPT ![i] = "raised"]
    /\ IF Strategy = "llm"
       THEN llmPc' = "awaiting" /\ UNCHANGED << runState, error >>
       ELSE /\ llmPc' = llmPc
            /\ IF runState = "running" THEN Fail(e) ELSE UNCHANGED << runState, error >>

\* Variant: the strategy takes the tooler of a position from self.toolers
\* each time it comes to it.
ToolerAtFromSelf(i) ==
    IF i \in 1..Len(selfToolers) THEN selfToolers[i] ELSE toolers[i]

\* The tooler whose interact the strategy calls at position i: an element of
\* the list the strategy read from self.toolers before its first await.
ToolerAt(i) == toolers[i]

\* add_tools, the rendering, and _execute up to the await of agent.invoke;
\* log is interact's `chat` argument
Enter(i, log) ==
    /\ ConstructTools(ToolerAt(i).variant).ok
    /\ kernelPlugins' = AddTools(kernelPlugins, ConstructTools(ToolerAt(i).variant).tools)
    /\ LET entered == AddMessage(log, "user",
                                 Render(ToolerAt(i).variant, prompt, kernelPlugins'), i)
       IN /\ SetToolerChat(entered)
          /\ sent' = [sent EXCEPT ![i] = SentMessages(entered)]
    /\ response' = [response EXCEPT ![i] = <<>>]
    /\ fragments' = [fragments EXCEPT ![i] = 0]
    /\ attempts' = [attempts EXCEPT ![i] = @ + 1]
    /\ pc' = [pc EXCEPT ![i] = "awaiting"]

Interact(i) ==
    /\ MayEnter(i)
    /\ Enter(i, chat)
    /\ UNCHANGED << inputs, other, runs, sampleVars, notifyFailed, toolResults, llmTools, toolCalls, notified, runState, error, result, toolers, selfToolers,
                    chatExists, returned, finished, failures, answers, llmVars >>

\* a constructor of the tool list raises: the exception leaves interact
\* before add_tools and _execute
InteractRaises(i) ==
    /\ MayEnter(i)
    /\ ~ConstructTools(toolers[i].variant).ok
    /\ Leaves(i, ConstructTools(toolers[i].variant).error)
    /\ UNCHANGED << inputs, other, runs, sampleVars, notifyFailed, toolResults, callVars, notified, result, toolers, selfToolers, kernelPlugins, chat,
                    chatExists, response, fragments, returned, finished, attempts, sent,
                    failures, answers, llmSent, llmResult >>

\* Variant: the response is the fragment received last.
FragmentKeepingLatest(i) ==
    /\ i \in 1..N
    /\ pc[i] = "awaiting"
    /\ fragments[i] < MaxFragments
    /\ fragments' = [fragments EXCEPT ![i] = @ + 1]
    /\ response' = [response EXCEPT ![i] = FragmentText(fragments'[i])]
    /\ SetToolerChat(AddMessage(ToolerChat, "assistant", FragmentText(fragments'[i]), i))
    /\ UNCHANGED << inputs, other, runs, sampleVars, notifyFailed, toolResults, llmTools, toolCalls, notified, runState, error, result, toolers, selfToolers,
                    kernelPlugins, chatExists, pc, returned, finished, attempts, sent,
                    failures, answers, llmVars >>

\* one iteration of the async for: a fragment arrives
Fragment(i) ==
    /\ i \in 1..N
    /\ pc[i] = "awaiting"
    /\ fragments[i] < MaxFragments
    /\ fragments' = [fragments EXCEPT ![i] = @ + 1]
    /\ response' = [response EXCEPT ![i] = @ \o FragmentText(fragments'[i])]
    /\ SetToolerChat(AddMessage(ToolerChat, "assistant", FragmentText(fragments'[i]), i))
    /\ UNCHANGED << inputs, other, runs, sampleVars, notifyFailed, toolResults, llmTools, toolCalls, notified, runState, error, result, toolers, selfToolers,
                    kernelPlugins, chatExists, pc, returned, finished, attempts, sent,
                    failures, answers, llmVars >>

\* Variant: the mediator is notified once for every fragment received.
NotifyEachFragment(i) ==
    IF toolers[i].mediator
    THEN [k \in 1..fragments[i] |->
             [sender |-> i, event |-> "interaction_done",
              data |-> [tooler_id |-> toolers[i].tooler.id,
                        tooler_name |-> toolers[i].tooler.name],
              after |-> Len(ToolerChat)]]
    ELSE <<>>

\* `if self.mediator: self.mediator.notify(...)`: the calls tooler i makes
\* when its async for has ended; `after` records the length of the history then
Notify(i) ==
    IF toolers[i].mediator
    THEN <<[sender |-> i, event |-> "interaction_done",
            data |-> [tooler_id |-> toolers[i].tooler.id,
                      tooler_name |-> toolers[i].tooler.name],
            after |-> Len(ToolerChat)]>>
    ELSE <<>>

\* the async for ends; the mediator, if any, is notified; _execute and
\* interact return.  In the sequential strategy the loop appends the entry
\* before its next await; in the llm strategy the text goes to the service.
Finish(i) ==
    /\ i \in 1..N
    /\ pc[i] = "awaiting"
    /\ pc' = [pc EXCEPT ![i] = "done"]
    /\ returned' = [returned EXCEPT ![i] = response[i]]
    /\ finished' = Append(finished, i)
    /\ notified' = notified \o Notify(i)
    /\ answers' = IF Strategy = "sequential"
                  THEN Append(answers, SequentialEntry(i - 1, response[i]))
                  ELSE answers
    /\ llmPc' = IF Strategy = "llm" THEN "awaiting" ELSE llmPc
    /\ UNCHANGED << inputs, other, runs, sampleVars, notifyFailed, toolResults, callVars, runState, error, result, toolers, selfToolers, kernelPlugins, chat,
                    chatExists, response, fragments, attempts, sent, failures,
                    llmSent, llmResult >>

\* the async for ends and the mediator's notify raises: nothing in _execute
\* catches it
NotifyRaises(i) ==
    /\ i \in 1..N
    /\ pc[i] = "awaiting"
    /\ toolers[i].mediator
    /\ failures < FailureBudget
    /\ failures' = failures + 1
    /\ notifyFailed' = notifyFailed \cup {i}
    /\ Leaves(i, MakeError("Exception", <<"mediator">>))
    /\ UNCHANGED << inputs, other, runs, sampleVars, toolResults, callVars, notified, result, toolers, selfToolers, kernelPlugins, chat,
                    chatExists, response, fragments, returned, finished, attempts, sent,
                    answers, llmSent, llmResult >>

\* Variant: the re-attempt is made at once, without the sleep.
TransientFailureRetryingAtOnce(i) ==
    /\ i \in 1..N
    /\ pc[i] = "awaiting"
    /\ failures < FailureBudget
    /\ failures' = failures + 1
    /\ Enter(i, ToolerChat)
    /\ UNCHANGED << inputs, other, runs, sampleVars, notifyFailed, toolResults, llmTools, toolCalls, notified, runState, error, result, toolers, selfToolers,
                    chatExists, returned, finished, answers, llmVars >>

\* the async for ends and the mediator's notify raises a
\* ServiceResponseException: the except clause of interact takes it for a
\* failure of the service
NotifyRaisesTransient(i) ==
    /\ i \in 1..N
    /\ pc[i] = "awaiting"
    /\ toolers[i].mediator
    /\ failures < FailureBudget
    /\ failures' = failures + 1
    /\ notifyFailed' = notifyFailed \cup {i}
    /\ pc' = [pc EXCEPT ![i] = "sleeping"]
    /\ UNCHANGED << inputs, other, runs, sampleVars, toolResults, callVars, notified, runState, error, result, toolers, selfToolers,
                    kernelPlugins, chat, chatExists, response, fragments, returned, finished,
                    attempts, sent, answers, llmVars >>

\* agent.invoke raises ServiceResponseException: logged, then asyncio.sleep(60)
TransientFailure(i) ==
    /\ i \in 1..N
    /\ pc[i] = "awaiting"
    /\ failures < FailureBudget
    /\ failures' = failures + 1
    /\ pc' = [pc EXCEPT ![i] = "sleeping"]
    /\ UNCHANGED << inputs, other, runs, sampleVars, notifyFailed, toolResults, callVars, notified, runState, error, result, toolers, selfToolers,
                    kernelPlugins, chat, chatExists, response, fragments, returned, finished,
                    attempts, sent, answers, llmVars >>

\* the sleep is over: return await self.interact(prompt, chat)
Retry(i) ==
    /\ i \in 1..N
    /\ pc[i] = "sleeping"
    /\ Enter(i, ToolerChat)
    /\ UNCHANGED << inputs, other, runs, sampleVars, notifyFailed, toolResults, llmTools, toolCalls, notified, runState, error, result, toolers, selfToolers,
                    chatExists, returned, finished, failures, answers, llmVars >>

\* agent.invoke raises any other exception: it leaves interact
Raise(i) ==
    /\ i \in 1..N
    /\ pc[i] = "awaiting"
    /\ failures < FailureBudget
    /\ failures' = failures + 1
    /\ Leaves(i, MakeError("Exception", <<"completion service">>))
    /\ UNCHANGED << inputs, other, runs, sampleVars, notifyFailed, toolResults, callVars, notified, result, toolers, selfToolers, kernelPlugins, chat,
                    chatExists, response, fragments, returned, finished, attempts, sent,
                    answers, llmSent, llmResult >>

\* How subprocess.run ends: the code exits with 0, exits with another
\* status, runs past the timeout, or the command cannot be started.
SubprocessOutcomes == {"exit0", "nonzero", "timeout", "oserror"}

\* Variant: subprocess.run is given check=True.
RunGeneratedCodeChecked(o) ==
    CASE o = "exit0" -> [raised |-> FALSE, value |-> << <<"out">>, <<>> >>, removed |-> TRUE]
      [] o = "timeout" ->
            [raised |-> FALSE, value |-> << <<>>, <<"Execution timed out.">> >>, removed |-> TRUE]
      [] OTHER -> [raised |-> TRUE, value |-> <<>>, removed |-> TRUE]

\* CodeRunnerPlugin.run_generated_code: the (stdout, stderr) it returns, or
\* that it raises; `removed`: the finally clause has removed analysis.py
RunGeneratedCode(o) ==
    CASE o = "exit0" -> [raised |-> FALSE, value |-> << <<"out">>, <<>> >>, removed |-> TRUE]
      [] o = "nonzero" ->
            [raised |-> FALSE, value |-> << <<"out">>, <<"err">> >>, removed |-> TRUE]
      [] o = "timeout" ->
            [raised |-> FALSE, value |-> << <<>>, <<"Execution timed out.">> >>, removed |-> TRUE]
      [] OTHER -> [raised |-> TRUE, value |-> <<>>, removed |-> TRUE]

\* run_generated_code of sample/code_runner.py: (stdout, stderr, pdf_file)
SampleRunGeneratedCode(o) ==
    CASE o = "exit0" ->
            [raised |-> FALSE, removed |-> TRUE,
             value |-> << <<"out">>, <<>>, <<"analysis_output.pdf">> >>]
      [] o = "nonzero" ->
            [raised |-> FALSE, removed |-> TRUE,
             value |-> << <<"out">>, <<"err">>, <<"analysis_output.pdf">> >>]
      [] o = "timeout" ->
            [raised |-> FALSE, removed |-> TRUE,
             value |-> << <<>>, <<"Execution timed out.">>, <<"analysis_output.pdf">> >>]
      [] OTHER -> [raised |-> TRUE, value |-> <<>>, removed |-> TRUE]

\* While tooler i's agent.invoke is awaited, the completion service calls
\* ExecuteCode of the CodeRunnerPlugin registered with the kernel.  The
\* function does not await: it runs to its end in one step.  What it returns,
\* or the text of what it raises, goes to the service; the invoke goes on.
ToolInvoke(i, o) ==
    /\ i \in 1..N
    /\ pc[i] = "awaiting"
    /\ "CodeRunnerPlugin" \in kernelPlugins
    /\ Len(toolResults) < MaxToolRuns
    /\ toolResults' = Append(toolResults,
                             [tool |-> "CodeRunnerPlugin", by |-> i, outcome |-> o,
                              call |-> RunGeneratedCode(o)])
    /\ UNCHANGED << inputs, other, runs, sampleVars, notifyFailed, callVars, notified, runState, error, result, toolers, selfToolers,
                    kernelPlugins, chat, chatExists, toolerVars, failures, answers, llmVars >>

\* The sample script, a program of its own, calls its ExecuteCode.
SampleToolInvoke(o) ==
    /\ runState = "called"
    /\ Len(toolResults) < MaxToolRuns
    /\ toolResults' = Append(toolResults,
                             [tool |-> "sample", by |-> 0, outcome |-> o,
                              call |-> SampleRunGeneratedCode(o)])
    /\ UNCHANGED << inputs, other, runs, sampleVars, notifyFailed, callVars, notified, runState, error, result, toolers, selfToolers,
                    kernelPlugins, chat, chatExists, toolerVars, failures, answers, llmVars >>

\* A task of the caller sets the mediator of every tooler of the run, through
\* the mediator setter, while the run awaits and no interact has returned.
AttachMediators ==
    /\ runState = "running"
    /\ N > 0
    /\ finished = <<>>
    /\ \A i \in 1..N : ~toolers[i].mediator
    /\ toolers' = [i \in 1..N |-> [toolers[i] EXCEPT !.mediator = TRUE]]
    /\ selfToolers' = toolers'
    /\ UNCHANGED << inputs, other, runs, sampleVars, notifyFailed, toolResults, callVars, notified, runState, error, result, kernelPlugins, chat,
                    chatExists, toolerVars, failures, answers, llmVars >>

\* return answers
SequentialReturn ==
    /\ Strategy = "sequential"
    /\ runState = "running"
    /\ Len(answers) = N
    /\ runState' = "returned"
    /\ result' = answers
    /\ UNCHANGED << inputs, other, runs, sampleVars, notifyFailed, toolResults, callVars, notified, error, toolers, selfToolers, kernelPlugins, chat, chatExists,
                    toolerVars, failures, answers, llmVars >>

\* gather has every task's result
ParallelReturn ==
    /\ Strategy = "parallel"
    /\ runState = "running"
    /\ \A i \in 1..N : pc[i] = "done"
    /\ runState' = "returned"
    /\ result' = GatherResults(returned)
    /\ UNCHANGED << inputs, other, runs, sampleVars, notifyFailed, toolResults, callVars, notified, error, toolers, selfToolers, kernelPlugins, chat, chatExists,
                    toolerVars, failures, answers, llmVars >>

(***************************************************************************)
(* The reasoning agent of _llm_processing.                                 *)
(***************************************************************************)
\* The completion service calls tooler i, a plugin of the reasoning agent's
\* kernel, before it answers: interact is entered with the prompt and a
\* ChatHistory made from the call's arguments.
MayCall(i) ==
    /\ i \in 1..N
    /\ Strategy = "llm"
    /\ llmPc = "awaiting"
    /\ llmResult = <<>>
    /\ toolCalls < MaxToolCalls
    /\ \E k \in 1..Len(llmTools) : llmTools[k] = toolers[i].tooler.name
    /\ pc[i] \in {"idle", "done", "raised"}

LlmToolCall(i) ==
    /\ MayCall(i)
    /\ toolCalls' = toolCalls + 1
    /\ llmPc' = "calling"
    /\ Enter(i, <<>>)
    /\ UNCHANGED << inputs, other, runs, sampleVars, notifyFailed, toolResults, llmTools, notified, runState, error, result, toolers, selfToolers,
                    chatExists, returned, finished, failures, answers, llmSent, llmResult >>

\* the called interact raises while it constructs its tools
LlmToolCallRaises(i) ==
    /\ MayCall(i)
    /\ ~ConstructTools(toolers[i].variant).ok
    /\ toolCalls' = toolCalls + 1
    /\ subChat' = <<>>
    /\ Leaves(i, ConstructTools(toolers[i].variant).error)
    /\ UNCHANGED << inputs, other, runs, sampleVars, notifyFailed, toolResults, llmTools, notified, result, toolers, selfToolers, kernelPlugins, chat,
                    chatExists, response, fragments, returned, finished, attempts, sent,
                    failures, answers, llmSent, llmResult >>

\* result.append(message.content)
LlmFragment ==
    /\ llmPc = "awaiting"
    /\ Len(llmResult) < MaxFragments
    /\ llmResult' = Append(llmResult, FragmentText(Len(llmResult) + 1))
    /\ UNCHANGED << inputs, other, runs, sampleVars, notifyFailed, toolResults, callVars, notified, runState, error, result, toolers, selfToolers, kernelPlugins, chat,
                    chatExists, toolerVars, failures, answers, llmPc, llmSent >>

\* return [result]
LlmReturn ==
    /\ llmPc = "awaiting"
    /\ llmPc' = "done"
    /\ runState' = "returned"
    /\ result' = <<llmResult>>
    /\ UNCHANGED << inputs, other, runs, sampleVars, notifyFailed, toolResults, callVars, notified, error, toolers, selfToolers, kernelPlugins, chat, chatExists,
                    toolerVars, failures, answers, llmSent, llmResult >>

\* agent.invoke raises: nothing in _llm_processing catches it
LlmRaise ==
    /\ llmPc = "awaiting"
    /\ llmPc' = "raised"
    /\ Fail(MakeError("Exception", <<"completion service">>))
    /\ UNCHANGED << inputs, other, runs, sampleVars, notifyFailed, toolResults, callVars, notified, result, toolers, selfToolers, kernelPlugins, chat, chatExists,
                    toolerVars, failures, answers, llmSent, llmResult >>

Next ==
    \/ RunFetchFails
    \/ RunCreateFails
    \/ RunUnknownStrategy
    \/ RunStrategy
    \/ RunLlmNoReasoning
    \/ RunLlm
    \/ \E i \in 1..N : Interact(i)
    \/ \E i \in 1..N : InteractRaises(i)
    \/ \E i \in 1..N : Fragment(i)
    \/ \E i \in 1..N : Finish(i)
    \/ \E i \in 1..N : TransientFailure(i)
    \/ \E i \in 1..N : Retry(i)
    \/ \E i \in 1..N : Raise(i)
    \/ \E i \in 1..N : LlmToolCall(i)
    \/ \E i \in 1..N : LlmToolCallRaises(i)
    \/ SequentialReturn
    \/ ParallelReturn
    \/ LlmFragment
    \/ LlmReturn
    \/ LlmRaise

\* run_interaction on its own: nothing attaches a mediator to its toolers.
Spec == Init /\ [][Next]_vars

\* The runs that are made one after the other on one orchestrator.
RepeatArguments ==
    {[kind |-> "id", id |-> "nope"]}
        \cup {[kind |-> "inline", assembly |-> [id |-> "inline", agents |-> AgentsOf(o)]] :
                  o \in {<<"code">>, <<"Graphics", "code">>}}

RepeatStrategies == {"parallel", "sequential", "llm"}

\* The calls made in a sequence of runs: the assemblies of two agents are
\* run with the sequential strategy.
RepeatRun(a, st) ==
    /\ a \in RepeatArguments
    /\ st \in RepeatStrategies
    /\ (st # "sequential" /\ a.kind = "inline") => Len(a.assembly.agents) <= 1

\* run_interaction is called again on the orchestrator when the earlier call
\* has ended and none of its tasks is under way.  The locals and the tasks of
\* the earlier call are gone (no call is due on the toolers it left: "none");
\* the orchestrator still has self.toolers, with their kernel, and the
\* ChatHistory of the earlier call is shown until the new call creates its own.
RunAgain ==
    /\ runState \in {"returned", "failed"}
    /\ runs < MaxRuns
    /\ \A i \in 1..N : pc[i] \notin {"awaiting", "sleeping"}
    /\ runs' = runs + 1
    /\ arg' \in RepeatArguments
    /\ strategy' \in RepeatStrategies
    /\ RepeatRun(arg', strategy')
    /\ runState' = "called"
    /\ error' = NoError
    /\ result' = <<>>
    /\ chatExists' = FALSE
    /\ pc' = [i \in 1..N |-> "none"]
    /\ response' = [i \in 1..N |-> <<>>]
    /\ fragments' = [i \in 1..N |-> 0]
    /\ returned' = [i \in 1..N |-> <<>>]
    /\ finished' = <<>>
    /\ attempts' = [i \in 1..N |-> 0]
    /\ sent' = [i \in 1..N |-> <<>>]
    /\ answers' = <<>>
    /\ llmPc' = "none"
    /\ llmSent' = <<>>
    /\ llmResult' = <<>>
    /\ llmTools' = <<>>
    /\ toolCalls' = 0
    /\ subChat' = <<>>
    /\ UNCHANGED << availableModels, prompt, other, toolers, selfToolers, kernelPlugins, chat, failures,
                    notified, toolResults, notifyFailed, sampleVars >>

RepeatInit ==
    /\ Init
    /\ RepeatRun(arg, strategy)
    /\ availableModels = FullRegistry

RepeatNext ==
    \/ RunFetchFails
    \/ RunStrategy
    \/ RunLlm
    \/ \E i \in 1..N : Interact(i)
    \/ \E i \in 1..N : Fragment(i)
    \/ \E i \in 1..N : Finish(i)
    \/ \E i \in 1..N : TransientFailure(i)
    \/ \E i \in 1..N : Retry(i)
    \/ \E i \in 1..N : Raise(i)
    \/ \E i \in 1..N : LlmToolCall(i)
    \/ SequentialReturn
    \/ ParallelReturn
    \/ LlmFragment
    \/ LlmReturn
    \/ LlmRaise
    \/ RunAgain

RepeatSpec == RepeatInit /\ [][RepeatNext]_vars

\* run_interaction beside a task that attaches a mediator to the toolers.
MediatorNext ==
    \/ Next
    \/ AttachMediators
    \/ \E i \in 1..N : NotifyRaises(i)
    \/ \E i \in 1..N : NotifyRaisesTransient(i)

\* The llm strategy, where every completion call that does not raise
\* returns and every sleep ends.
LlmInit ==
    /\ Init
    /\ strategy = "llm"

LlmNext ==
    \/ RunFetchFails
    \/ RunCreateFails
    \/ RunLlmNoReasoning
    \/ RunLlm
    \/ \E i \in 1..N : LlmToolCall(i)
    \/ \E i \in 1..N : LlmToolCallRaises(i)
    \/ \E i \in 1..N : Fragment(i)
    \/ \E i \in 1..N : Finish(i)
    \/ \E i \in 1..N : TransientFailure(i)
    \/ \E i \in 1..N : Retry(i)
    \/ \E i \in 1..N : Raise(i)
    \/ LlmFragment
    \/ LlmReturn
    \/ LlmRaise

CallReturns ==
    \/ LlmReturn
    \/ \E i \in 1..N : Finish(i)
    \/ \E i \in 1..N : Retry(i)

LlmSpec == LlmInit /\ [][LlmNext]_vars /\ WF_vars(CallReturns)

\* Two run_interaction calls under way at once on one orchestrator, each
\* given its assembly inline; this call runs the assembly of two agents with
\* the sequential strategy.
ConcurrentAssemblies ==
    {[id |-> "inline", agents |-> AgentsOf(o)] :
         o \in {<<"code">>, <<"Graphics", "code">>}}

\* The second call runs from its start to the first await of its strategy,
\* before this call starts or while this call awaits: it assigns self.toolers
\* the list create_toolers built from its assembly, and its strategy reads
\* the list there.  `at` records the length of this call's history then.
OtherRun(a) ==
    /\ other = <<>>
    /\ runState \in {"called", "running"}
    /\ a \in ConcurrentAssemblies
    /\ a # Resolve(arg).assembly
    /\ CreateToolers(a).ok
    /\ selfToolers' = CreateToolers(a).toolers
    /\ other' = <<[assembly |-> a, toolers |-> selfToolers', at |-> Len(chat)]>>
    /\ UNCHANGED << inputs, runs, sampleVars, notifyFailed, toolResults, callVars, notified,
                    runState, error, result, toolers, kernelPlugins, chat, chatExists,
                    toolerVars, failures, answers, llmVars >>

ConcurrentInit ==
    /\ Init
    /\ arg.kind = "inline"
    /\ arg.assembly \in ConcurrentAssemblies
    /\ strategy \in {"parallel", "sequential", "llm"}
    /\ strategy # "sequential" => Len(arg.assembly.agents) <= 1
    /\ availableModels = FullRegistry

ConcurrentNext ==
    \/ RunStrategy
    \/ RunLlm
    \/ \E a \in ConcurrentAssemblies : OtherRun(a)
    \/ \E i \in 1..N : Interact(i)
    \/ \E i \in 1..N : Fragment(i)
    \/ \E i \in 1..N : Finish(i)
    \/ \E i \in 1..N : TransientFailure(i)
    \/ \E i \in 1..N : Retry(i)
    \/ \E i \in 1..N : Raise(i)
    \/ \E i \in 1..N : LlmToolCall(i)
    \/ SequentialReturn
    \/ ParallelReturn
    \/ LlmFragment
    \/ LlmReturn
    \/ LlmRaise

ConcurrentSpec == ConcurrentInit /\ [][ConcurrentNext]_vars

(***************************************************************************)
(* run_code_in_docker of sample/code_runner.py: its loop over the replies  *)
(* of an agent that has ExecuteCode as a tool.                             *)
(***************************************************************************)
\* What a fragment is to the loop: text json.loads rejects; an object with
\* "function_call" naming ExecuteCode, or naming another function; an object
\* with "generated_code"; an object with neither; JSON that is a number.
SampleFragments ==
    {"unparseable", "function_call", "function_call_other", "generated_code", "final", "number"}

\* The post-check of the loop: json.loads of the content of chat.messages[-1]
\* has "function_call".  The system and user messages are no JSON objects.
LastIsFunctionCall(log) ==
    log # <<>> /\ log[Len(log)] \in {"function_call", "function_call_other"}

\* After the break of the inner loop, or its end: `continue` when the last
\* message of the history is a function call, else `break`.
AfterBreak(log) == IF LastIsFunctionCall(log) THEN "invoking" ELSE "ended"

\* the script calls run_code_in_docker: the history gets the system and the
\* user message, and agent.invoke is called
SampleStart ==
    /\ runState = "called"
    /\ samplePc = "none"
    /\ samplePc' = "invoking"
    /\ sampleChat' = <<"system", "user">>
    /\ sampleRounds' = 1
    /\ UNCHANGED << inputs, other, runs, notifyFailed, toolResults, callVars, notified, runState, error,
                    result, toolers, selfToolers, kernelPlugins, chat, chatExists, toolerVars, failures,
                    answers, llmVars, sampleLast >>

\* one iteration of the async for on a fragment that ends it: the fragment is
\* printed, or appended to the history after ExecuteCode has run; then the
\* post-check.  o is how the subprocess of ExecuteCode ends.
SampleBreak(kind, o) ==
    /\ samplePc = "invoking"
    /\ kind \in {"unparseable", "function_call", "function_call_other", "final"}
    /\ sampleLast' = kind
    /\ IF kind = "function_call"
       THEN /\ Len(toolResults) < MaxToolRuns
            /\ toolResults' = Append(toolResults,
                                     [tool |-> "sample", by |-> 0, outcome |-> o,
                                      call |-> SampleRunGeneratedCode(o)])
       ELSE /\ o = "exit0"
            /\ toolResults' = toolResults
    /\ IF kind = "function_call" /\ SampleRunGeneratedCode(o).raised
       THEN /\ samplePc' = "raised"
            /\ UNCHANGED << sampleChat, sampleRounds >>
       ELSE /\ sampleChat' = IF kind \in {"function_call", "function_call_other"}
                             THEN Append(sampleChat, kind)
                             ELSE sampleChat
            /\ samplePc' = AfterBreak(sampleChat')
            /\ samplePc' = "invoking" => sampleRounds < MaxRounds
            /\ sampleRounds' = IF samplePc' = "invoking" THEN sampleRounds + 1 ELSE sampleRounds
    /\ UNCHANGED << inputs, other, runs, notifyFailed, callVars, notified, runState, error,
                    result, toolers, selfToolers, kernelPlugins, chat, chatExists, toolerVars, failures,
                    answers, llmVars >>

\* an iteration on a fragment with "generated_code": ExecuteCode runs and the
\* async for goes on
SampleGeneratedCode(o) ==
    /\ samplePc = "invoking"
    /\ Len(toolResults) < MaxToolRuns
    /\ sampleLast' = "generated_code"
    /\ toolResults' = Append(toolResults,
                             [tool |-> "sample", by |-> 0, outcome |-> o,
                              call |-> SampleRunGeneratedCode(o)])
    /\ samplePc' = IF SampleRunGeneratedCode(o).raised THEN "raised" ELSE "invoking"
    /\ UNCHANGED << inputs, other, runs, notifyFailed, callVars, notified, runState, error,
                    result, toolers, selfToolers, kernelPlugins, chat, chatExists, toolerVars, failures,
                    answers, llmVars, sampleChat, sampleRounds >>

\* an iteration on JSON that is a number: `"function_call" in content_dict`
\* raises TypeError, which nothing catches
SampleNumber ==
    /\ samplePc = "invoking"
    /\ sampleLast' = "number"
    /\ samplePc' = "raised"
    /\ UNCHANGED << inputs, other, runs, notifyFailed, toolResults, callVars, notified, runState, error,
                    result, toolers, selfToolers, kernelPlugins, chat, chatExists, toolerVars, failures,
                    answers, llmVars, sampleChat, sampleRounds >>

\* the async for ends with no fragment that breaks it; then the post-check
SampleInvokeEnds ==
    /\ samplePc = "invoking"
    /\ sampleLast' = "end"
    /\ samplePc' = AfterBreak(sampleChat)
    /\ samplePc' = "invoking" => sampleRounds < MaxRounds
    /\ sampleRounds' = IF samplePc' = "invoking" THEN sampleRounds + 1 ELSE sampleRounds
    /\ UNCHANGED << inputs, other, runs, notifyFailed, toolResults, callVars, notified, runState, error,
                    result, toolers, selfToolers, kernelPlugins, chat, chatExists, toolerVars, failures,
                    answers, llmVars, sampleChat >>

\* agent.invoke raises: nothing in run_code_in_docker catches it
SampleInvokeRaises ==
    /\ samplePc = "invoking"
    /\ sampleLast' = "raise"
    /\ samplePc' = "raised"
    /\ UNCHANGED << inputs, other, runs, notifyFailed, toolResults, callVars, notified, runState, error,
                    result, toolers, selfToolers, kernelPlugins, chat, chatExists, toolerVars, failures,
                    answers, llmVars, sampleChat, sampleRounds >>

SampleInit ==
    /\ Init
    /\ strategy = "sequential"
    /\ arg = [kind |-> "id", id |-> "nope"]

SampleNext ==
    \/ SampleStart
    \/ \E kind \in SampleFragments : \E o \in SubprocessOutcomes : SampleBreak(kind, o)
    \/ \E o \in SubprocessOutcomes : SampleGeneratedCode(o)
    \/ SampleNumber
    \/ SampleInvokeEnds
    \/ SampleInvokeRaises

SampleSpec == SampleInit /\ [][SampleNext]_vars

\* A sequential run over one agent at most, with the calls of the
\* code-running tools.
ToolInit ==
    /\ Init
    /\ strategy = "sequential"
    /\ arg.kind = "inline"
    /\ Len(arg.assembly.agents) <= 1

ToolNext ==
    \/ RunCreateFails
    \/ RunStrategy
    \/ \E i \in 1..N : Interact(i)
    \/ \E i \in 1..N : InteractRaises(i)
    \/ \E i \in 1..N : Fragment(i)
    \/ \E i \in 1..N : Finish(i)
    \/ \E i \in 1..N : TransientFailure(i)
    \/ \E i \in 1..N : Retry(i)
    \/ \E i \in 1..N : Raise(i)
    \/ SequentialReturn
    \/ \E i \in 1..N : \E o \in SubprocessOutcomes : ToolInvoke(i, o)
    \/ \E o \in SubprocessOutcomes : SampleToolInvoke(o)

ToolSpec == ToolInit /\ [][ToolNext]_vars

\* The interleavings of two parallel tasks are those of Spec; here a parallel
\* run has one task at most.
MediatorInit ==
    /\ Init
    /\ Strategy = "parallel" /\ arg.kind = "inline" => Len(arg.assembly.agents) <= 1

MediatorSpec == MediatorInit /\ [][MediatorNext]_vars

(***************************************************************************)
(* Properties.                                                             *)
(***************************************************************************)
Agents == Resolve(arg).assembly.agents

Started == runState # "called"

\* The entries of a history that tooler i appended, in their order.
EntriesBy(log, i) ==
    LET Mine(e) == e.by = i IN SelectSeq(log, Mine)

\* The entries of a history that toolers before tooler k appended, in their order.
EntriesBefore(log, k) ==
    LET Earlier(e) == e.by < k IN SelectSeq(log, Earlier)

UserEntriesBy(log, i) ==
    LET MineUser(e) == e.by = i /\ e.role = "user" IN SelectSeq(log, MineUser)

NoCompletionCall ==
    /\ \A i \in 1..Len(attempts) : attempts[i] = 0 /\ sent[i] = <<>>
    /\ llmSent = <<>>

\* C1: a sequential run over an assembly of N agents that returns, returns
\* exactly N entries; the entry at zero-based position i is the singleton map
\* from "agent_i" to the text the i-th agent's interact returned.
C1_SequentialResult ==
    strategy = "sequential" /\ runState = "returned" =>
        /\ Len(result) = Len(Agents)
        /\ \A p \in 1..Len(Agents) :
              /\ toolers[p].tooler = Agents[p]
              /\ result[p] = [key |-> [prefix |-> "agent_", index |-> p - 1],
                              value |-> returned[p]]

C1_Witness ==
    /\ strategy = "sequential"
    /\ runState = "returned"
    /\ Len(result) = 3
    /\ result[1].value # result[2].value
    /\ attempts[2] = 2

\* C2: a parallel run returns only when every task has completed, and its
\* result holds each tooler's text at that tooler's position in creation
\* order, whatever the order in which the tasks completed.
C2_ParallelResult ==
    strategy = "parallel" /\ runState = "returned" =>
        /\ \A i \in 1..N : pc[i] = "done"
        /\ Len(result) = Len(Agents)
        /\ \A p \in 1..Len(Agents) :
              /\ toolers[p].tooler = Agents[p]
              /\ result[p] = returned[p]

C2_Witness ==
    /\ strategy = "parallel"
    /\ runState = "returned"
    /\ finished = <<2, 1>>
    /\ returned[1] # returned[2]

\* C3: in a sequential run, tooler k is entered only when every earlier
\* tooler has returned, and the messages it sends hold every entry of the
\* earlier toolers, in the order they were appended, before its own entries.
C3_SequentialSeesEarlier ==
    strategy = "sequential" =>
        \A k \in 1..N : attempts[k] > 0 =>
            /\ \A j \in 1..(k - 1) : pc[j] = "done"
            /\ EntriesBefore(sent[k], k) = EntriesBefore(chat, k)
            /\ SubSeq(sent[k], 1, Len(EntriesBefore(chat, k))) = EntriesBefore(chat, k)
            /\ \A j \in 1..(k - 1) : EntriesBy(chat, j) # <<>>
            /\ sent[k][Len(sent[k])].role = "user" /\ sent[k][Len(sent[k])].by = k

C3_Witness ==
    /\ strategy = "sequential"
    /\ N = 3
    /\ attempts[3] > 0
    /\ attempts[1] = 2
    /\ Len(EntriesBefore(sent[3], 3)) >= 5

\* C4 (as claimed): when interact has returned after one failed attempt, the
\* history holds the tooler's user entry once, and its assistant entries are
\* those of the successful attempt alone.
C4_NoDuplicateAfterRetry ==
    \A i \in 1..N : pc[i] = "done" /\ attempts[i] = 2 =>
        /\ Len(UserEntriesBy(chat, i)) = 1
        /\ Len(EntriesBy(chat, i)) = 1 + fragments[i]

\* The claim of C5 fixes no retry bound.  The service here raises up to
\* MaxFailures + 1 times in a sequential run, so the largest bound that shows
\* is MaxFailures re-attempts.
RetryBound == MaxFailures

\* C5 (as claimed): interact re-attempts at most RetryBound times, so it makes
\* at most RetryBound + 1 completion attempts, and a tooler whose attempts have
\* all failed is not asleep before another attempt: its interact has ended.
C5_RetryBounded ==
    \A i \in 1..N :
        /\ attempts[i] <= RetryBound + 1
        /\ attempts[i] = RetryBound + 1 => pc[i] # "sleeping"

\* C6 (as claimed): in a parallel run the messages a tooler sends hold only
\* entries that this tooler appended.
C6_IndependentLogs ==
    strategy = "parallel" =>
        \A i \in 1..N : \A x \in 1..Len(sent[i]) : sent[i][x].by = i

\* C7: the history only grows at its end: each step leaves the entries it
\* held in place and unchanged.
C7_AppendOnly == [][IsPrefix(chat, chat')]_vars

C7_Witness ==
    /\ chatExists
    /\ \E i \in 1..N : attempts[i] = 2 /\ fragments[i] > 0 /\ Len(EntriesBy(chat, i)) >= 4

Unsupported(objective) == Lower(objective) \notin {"code", "graphics", "analysis"}

C9_NoReasoningService ==
    (Started /\ strategy = "llm" /\ "reasoning" \notin availableModels)
    => /\ runState = "failed"
       /\ NoCompletionCall
       /\ llmPc = "none"
       /\ result = <<>>
       /\ (Resolve(arg).ok /\ CreateToolers(Resolve(arg).assembly).ok)
             => error = MakeError("ValueError",
                                  <<"Reasoning service not found in available models.">>)

C9_Witness ==
    /\ strategy = "llm"
    /\ "reasoning" \notin availableModels
    /\ runState = "failed"
    /\ N = 3
    /\ error.type = "ValueError"

\* C10: a run given an id the assembly container does not hold fails with
\* the not-found ValueError: no toolers are built, no strategy runs, nothing
\* is returned.
C10_UnknownAssemblyId ==
    (Started /\ arg.kind = "id" /\ arg.id \notin DOMAIN StoredItems)
    => /\ runState = "failed"
       /\ error = MakeError("ValueError", <<"Assembly not found", arg.id>>)
       /\ toolers = <<>>
       /\ ~chatExists
       /\ result = <<>>
       /\ NoCompletionCall

C10_Witness ==
    /\ arg.kind = "id"
    /\ arg.id = "nope"
    /\ runState = "failed"
    /\ error.type = "ValueError"

\* The configuration a stored document holds.
StoredAssembly(id) == [id |-> StoredItems[id].id, agents |-> StoredItems[id].avatars]

\* C11 (as claimed): a run given the id of a stored assembly goes on as the
\* run given that assembly's configuration does: the fetch yields the
\* configuration and the toolers are those created from it.
C11_RunByIdAsRunByConfig ==
    (Started /\ arg.kind = "id" /\ arg.id \in DOMAIN StoredItems) =>
        /\ Resolve(arg).ok
        /\ toolers = CreateToolers(StoredAssembly(arg.id)).toolers

\* C12 (as claimed): the result of an llm run is the sequence of the fragments
\* the reasoning agent produced: as long as that sequence, its k-th element
\* the k-th fragment, nothing wrapped around them.
C12_LlmResultIsFragments ==
    Strategy = "llm" /\ runState = "returned" =>
        /\ Len(result) = Len(llmResult)
        /\ \A k \in 1..Len(llmResult) : result[k] = FragmentText(k)

\* C13: the messages handed to the reasoning agent are one user entry holding
\* the caller's prompt, and the history they come from stays that one entry:
\* what the called toolers append goes to the history of their call.
C13_LlmConversation ==
    Strategy = "llm" /\ llmPc # "none" =>
        /\ llmSent = <<[role |-> "user", content |-> prompt, by |-> 0]>>
        /\ chat = llmSent
        /\ \A x \in 1..Len(subChat) : subChat[x].by # 0

C13_Witness ==
    /\ Strategy = "llm"
    /\ llmPc = "done"
    /\ toolCalls = 1
    /\ Len(finished) = 1
    /\ Len(subChat) >= 3

\* C14: an llm run over an assembly without agents, with the reasoning
\* service registered, builds the reasoning agent with no tools, enters no
\* interact, and fails only if the reasoning agent's completion call raises;
\* when it returns, the result holds the reasoning agent's fragments.
C14_LlmWithoutAgents ==
    (Started /\ Strategy = "llm" /\ Resolve(arg).ok /\ Agents = <<>>
        /\ "reasoning" \in availableModels) =>
        /\ toolers = <<>>
        /\ llmTools = <<>>
        /\ toolCalls = 0
        /\ attempts = <<>>
        /\ llmSent # <<>>
        /\ runState = "failed" => llmPc = "raised"
        /\ runState = "returned" => \E k \in 1..Len(result) : result[k] = llmResult

C14_Witness ==
    /\ Strategy = "llm"
    /\ arg.kind = "inline"
    /\ Agents = <<>>
    /\ runState = "returned"
    /\ Len(llmResult) = 2

\* C16 (as claimed): a run beside a mediator ends as the run without one
\* can end: it fails only with an exception that run_interaction raises when
\* no mediator is attached.
C16_MediatorIndependent ==
    runState = "failed" => error.detail # <<"mediator">>

\* The notify calls tooler i made, in order.
NotificationsFrom(i) ==
    LET Mine(n) == n.sender = i IN SelectSeq(notified, Mine)

\* The number of times tooler i's interact has returned.
Returns(i) ==
    LET Mine(x) == x = i IN Len(SelectSeq(finished, Mine))

C19_MissingServiceDeferred ==
    (Started /\ Resolve(arg).ok
        /\ \A p \in 1..Len(Agents) : ~Unsupported(Agents[p].objective)
        /\ \E q \in 1..Len(Agents) : Agents[q].model_id \notin availableModels)
    => /\ Len(toolers) = Len(Agents)
       /\ error.type # "KernelServiceNotFoundError"

\* C20 (as claimed): a run that returns has run the one strategy named,
\* parallel when none is named, and no other: its result has that strategy's
\* shape, the texts in tooler order for parallel, the "agent_" entries for
\* sequential, the reasoning agent's fragments for llm.
C20_OneStrategyItsShape ==
    runState = "returned" =>
        /\ strategy \in {"parallel", "omitted"} =>
              answers = <<>> /\ llmPc = "none" /\ result = returned
        /\ strategy = "sequential" =>
              llmPc = "none" /\ result = answers /\ Len(result) = N
        /\ strategy = "llm" =>
              answers = <<>> /\ llmPc = "done" /\ result = llmResult

\* C15: an llm run returns at the step at which the reasoning agent's invoke
\* ends, and at no other; when it has returned, no tooler the service called
\* is under way; and where every completion call that does not raise returns
\* and every sleep ends, a running llm run comes to return or to fail.
C15_LlmTerminates ==
    /\ [](Strategy = "llm" /\ runState = "returned" =>
             /\ llmPc = "done"
             /\ \A i \in 1..N : pc[i] \in {"idle", "done", "raised"})
    /\ [][Strategy = "llm" /\ runState # "returned" /\ runState' = "returned" =>
             /\ llmPc = "awaiting"
             /\ llmPc' = "done"
             /\ llmResult' = llmResult]_vars
    /\ (Strategy = "llm" /\ runState = "running") ~> (runState \in {"returned", "failed"})

C15_Witness ==
    /\ Strategy = "llm"
    /\ runState = "returned"
    /\ toolCalls = 1
    /\ \E i \in 1..N : attempts[i] = 2 /\ pc[i] = "done"
    /\ Len(llmResult) = 2

\* C18: a call of a code-running tool whose code runs past the timeout or
\* exits with a nonzero status returns: it raises nothing, its result carries
\* the error text, for a timeout an empty output and "Execution timed out.";
\* the temporary file is removed; the calling tooler's interact and the run
\* end in failure only when the completion service raised.
C18_ToolFailureReturned ==
    /\ \A k \in 1..Len(toolResults) :
          toolResults[k].outcome \in {"timeout", "nonzero"} =>
              /\ ~toolResults[k].call.raised
              /\ toolResults[k].call.removed
              /\ toolResults[k].call.value[2] # <<>>
              /\ toolResults[k].outcome = "timeout" =>
                    /\ toolResults[k].call.value[1] = <<>>
                    /\ toolResults[k].call.value[2] = <<"Execution timed out.">>
    /\ (failures = 0 /\ \E k \in 1..Len(toolResults) : toolResults[k].by # 0) =>
          /\ runState # "failed"
          /\ \A i \in 1..N : pc[i] # "raised"

C18_Witness ==
    /\ runState = "returned"
    /\ Len(result) = 1
    /\ \E k \in 1..Len(toolResults) :
          /\ toolResults[k].tool = "CodeRunnerPlugin"
          /\ toolResults[k].outcome = "timeout"
          /\ toolResults[k].call.value = << <<>>, <<"Execution timed out.">> >>

RECURSIVE ConcatFragments(_)
\* The first m fragments of a reply, one after the other.
ConcatFragments(m) == IF m = 0 THEN <<>> ELSE ConcatFragments(m - 1) \o FragmentText(m)

\* The entries of a history from tooler i's latest user entry on, that
\* tooler i appended.
LatestCallEntries(log, i) ==
    LET mine == EntriesBy(log, i)
        u == CHOOSE x \in 1..Len(mine) :
                 mine[x].role = "user" /\ \A y \in (x + 1)..Len(mine) : mine[y].role # "user"
    IN SubSeq(mine, u, Len(mine))

\* The history tooler i's latest call wrote to, where the state still has it.
CallLog(i) ==
    IF Strategy # "llm" THEN chat
    ELSE IF subChat # <<>> /\ subChat[1].by = i THEN subChat ELSE <<>>

\* C21: when an interact call has returned after its completion call yielded
\* m fragments, the text returned is the m fragments in the order received;
\* the call appended one user entry, the rendered prompt, which was the last
\* message handed to the service, and after it m assistant entries, the
\* fragments in that order; a call that made one attempt appended nothing else.
C21_UserThenFragments ==
    \A i \in 1..N : (pc[i] = "done" /\ CallLog(i) # <<>>) =>
        LET e == LatestCallEntries(CallLog(i), i)
        IN /\ returned[i] = ConcatFragments(fragments[i])
           /\ Len(e) = 1 + fragments[i]
           /\ e[1].role = "user"
           /\ e[1].content = sent[i][Len(sent[i])].content
           /\ sent[i][Len(sent[i])] = e[1]
           /\ e[1].content[1] = VariantTemplate(toolers[i].variant)
           /\ \A k \in 1..fragments[i] :
                 e[1 + k] = [role |-> "assistant", content |-> FragmentText(k), by |-> i]
           /\ (Strategy # "llm" /\ attempts[i] = 1) => EntriesBy(chat, i) = e

C21_Witness ==
    /\ Strategy = "parallel"
    /\ N = 2
    /\ \A i \in 1..N : pc[i] = "done" /\ fragments[i] = 2 /\ attempts[i] = 1
    /\ chat[2].by = 2 /\ chat[3].by = 1 /\ chat[4].by = 2

\* C22 (as claimed): a failure in an interact call, whether of the tool
\* registration, the rendering, the completion call or the notification, leads
\* to a re-attempt: an exception leaves interact for the caller only when the
\* re-attempts of the retry bound have been made.
C22_EveryFailureRetried ==
    \A i \in 1..N : pc[i] = "raised" => attempts[i] >= RetryBound + 1

\* C23: the step at which the completion service fails makes no completion
\* call; a tooler asleep after the failure makes its next call only at the
\* step that ends its sleep, with the history of the failed attempt, every
\* entry of it in place, and the prompt of the run rendered anew as the last
\* message; and while a tooler of a parallel run is asleep, a task that awaits
\* its completion call can take its fragments and return, and the task next
\* in the queue can enter its interact.
C23_BackOffThenSameCall ==
    /\ [][failures' > failures => attempts' = attempts /\ sent' = sent]_vars
    /\ [][\A i \in 1..N :
             (runState' # "called" /\ toolers' = toolers /\ pc[i] = "sleeping") =>
                 \/ attempts'[i] = attempts[i] /\ sent'[i] = sent[i]
                 \/ /\ attempts'[i] = attempts[i] + 1
                    /\ pc'[i] = "awaiting"
                    /\ sent'[i] = Append(ToolerChat,
                                         [role |-> "user", by |-> i,
                                          content |-> Render(toolers[i].variant, prompt,
                                                             kernelPlugins')])
                    /\ IsPrefix(sent[i], sent'[i])]_vars
    /\ [](Strategy = "parallel" =>
             \A i \in 1..N : pc[i] = "sleeping" =>
                 \A j \in 1..N :
                     /\ pc[j] = "awaiting" => ENABLED Finish(j)
                     /\ (pc[j] = "awaiting" /\ fragments[j] < MaxFragments)
                            => ENABLED Fragment(j)
                     /\ (MayEnter(j) /\ ConstructTools(toolers[j].variant).ok)
                            => ENABLED Interact(j))

C23_Witness ==
    /\ Strategy = "parallel"
    /\ N = 2
    /\ pc[1] = "sleeping"
    /\ pc[2] = "done"
    /\ fragments[2] = 2
    /\ chat[Len(chat)].by = 2

\* C24: a call of interact on a tooler that was entered before, a re-attempt
\* after a sleep or another call by the reasoning agent, leaves the plugins of
\* the tooler's kernel as they were, its variant's tools among them; and the
\* registration does not keep a sleeping tooler from its re-attempt.
C24_RegistrationIdempotent ==
    /\ [][\A i \in 1..N :
             (toolers' = toolers /\ attempts[i] >= 1 /\ attempts'[i] = attempts[i] + 1) =>
                 /\ kernelPlugins' = kernelPlugins
                 /\ VariantTools(toolers[i].variant) \subseteq kernelPlugins']_vars
    /\ [](\A i \in 1..N : attempts[i] >= 1 =>
             VariantTools(toolers[i].variant) \subseteq kernelPlugins)
    /\ [](\A i \in 1..N : pc[i] = "sleeping" => ENABLED Retry(i))

C24_Witness ==
    /\ N = 1
    /\ attempts[1] = 2
    /\ pc[1] = "done"
    /\ kernelPlugins = {"CodeRunnerPlugin"}

\* C25 (as claimed): while a tooler awaits its completion call, the tools the
\* service may call, the plugins of the tooler's kernel, are those of the
\* tooler's own variant and no others.
C25_OwnToolsOnly ==
    \A i \in 1..N : pc[i] = "awaiting" => kernelPlugins = VariantTools(toolers[i].variant)

\* C26 (as claimed): for an assembly whose agents all have a supported
\* objective, create_toolers returns one tooler for each agent, in the order
\* of the agents, the p-th bound to the p-th agent and of the variant its
\* objective selects.
C26_ToolerPerAgent ==
    (Started /\ Resolve(arg).ok /\ \A p \in 1..Len(Agents) : ~Unsupported(Agents[p].objective))
    => /\ Len(toolers) = Len(Agents)
       /\ \A p \in 1..Len(Agents) :
             /\ toolers[p].tooler = Agents[p]
             /\ toolers[p].variant = VariantOf(Agents[p].objective)

\* C27: within a run the assembly argument stays as the caller gave it, and
\* the agent records, which the toolers hold themselves and not as copies,
\* stay as the assembly has them, from the creation of the toolers to the
\* return or the failure of the run, re-attempts included.
C27_AssemblyUnchanged ==
    /\ [][runs' = runs => arg' = arg]_vars
    /\ [](toolers # <<>> =>
             /\ Len(toolers) = Len(Agents)
             /\ \A p \in 1..N : toolers[p].tooler = Agents[p])
    /\ [][(toolers # <<>> /\ runs' = runs) =>
             /\ Len(toolers') = Len(toolers)
             /\ \A p \in 1..N : toolers'[p].tooler = toolers[p].tooler]_vars

C27_Witness ==
    /\ runState = "returned"
    /\ N = 3
    /\ toolers[2].tooler.objective = "Graphics"
    /\ attempts[2] = 2

\* C28: in every run of a sequence of runs on one orchestrator, the strategy
\* creates its history anew, empty for the parallel and sequential strategies
\* and holding the prompt alone for the llm strategy; the toolers are those
\* create_toolers builds in this run from this run's assembly, on a kernel
\* without plugins, none of them entered yet; and every entry of the
\* history was appended by a tooler of this run in this run: a tooler's user
\* entries are as many as its attempts in this run, each rendered from its
\* own template.
C28_FreshLogAndToolers ==
    /\ [][(~chatExists /\ chatExists') =>
             chat' = IF Strategy' = "llm" THEN LlmChat(prompt') ELSE <<>>]_vars
    /\ [][(runState = "called" /\ runState' = "running") =>
             /\ toolers' = CreateToolers(Resolve(arg).assembly).toolers
             /\ kernelPlugins' = {}
             /\ \A i \in 1..Len(toolers') :
                   pc'[i] = "idle" /\ attempts'[i] = 0 /\ ~toolers'[i].mediator]_vars
    /\ [](chatExists /\ Strategy # "llm" =>
             /\ \A x \in 1..Len(chat) :
                   /\ chat[x].by \in 1..N
                   /\ chat[x].role = "user" =>
                          chat[x].content[1] = VariantTemplate(toolers[chat[x].by].variant)
             /\ \A i \in 1..N : Len(UserEntriesBy(chat, i)) = attempts[i])

C28_Witness ==
    /\ runs = 2
    /\ Strategy = "sequential"
    /\ runState = "returned"
    /\ N = 2
    /\ failures = 1
    /\ Len(chat) = 2 + fragments[1] + fragments[2]
    /\ fragments[1] = 2

\* C29 (as claimed): when the loop of run_code_in_docker has handled a
\* fragment that json.loads rejects, the loop has ended: nothing was raised
\* and the agent is not invoked again.
C29_UnparseableEndsLoop ==
    sampleLast = "unparseable" => samplePc = "ended"

\* C30 (as claimed): a tooler whose notify call raised has returned from its
\* interact with the text of its fragments, without a re-attempt on account
\* of the notification.
C30_NotifyFailureContained ==
    \A i \in 1..N : i \in notifyFailed =>
        /\ pc[i] = "done"
        /\ returned[i] = ConcatFragments(fragments[i])

\* C31: in a parallel run, a tooler whose interact raised has made the run
\* fail with nothing returned, the error being that of the first task that
\* raised; the failing step leaves the other tasks and the history as they
\* are; and after the failure a task that awaits its completion call can
\* still take its fragments, appending them to the history, and return, and
\* the task next in the queue can still enter its interact.
C31_ParallelFailureSiblingsGoOn ==
    /\ [](Strategy = "parallel" /\ (\E i \in 1..N : pc[i] = "raised") =>
             runState = "failed" /\ result = <<>>)
    /\ [][(Strategy = "parallel" /\ runState = "running" /\ runState' = "failed") =>
             \E i \in 1..N :
                 /\ pc[i] # "raised" /\ pc'[i] = "raised"
                 /\ \A j \in 1..N : j # i => pc'[j] = pc[j]
                 /\ chat' = chat]_vars
    /\ [][(Strategy = "parallel" /\ runState = "failed" /\ runs' = runs) =>
             runState' = "failed" /\ error' = error /\ result' = result]_vars
    /\ [](Strategy = "parallel" /\ runState = "failed" =>
             \A j \in 1..N :
                 /\ pc[j] = "awaiting" => ENABLED Finish(j)
                 /\ (pc[j] = "awaiting" /\ fragments[j] < MaxFragments)
                        => ENABLED Fragment(j)
                 /\ (MayEnter(j) /\ ConstructTools(toolers[j].variant).ok)
                        => ENABLED Interact(j))

C31_Witness ==
    /\ Strategy = "parallel"
    /\ runState = "failed"
    /\ N = 2
    /\ pc[1] = "raised"
    /\ attempts[1] = 0
    /\ pc[2] = "done"
    /\ Len(chat) = 3
    /\ result = <<>>

\* C32: in a sequential run, when the interact of tooler k has raised, the run
\* has failed with the exception that left that interact and has returned
\* nothing, though the toolers before k have each returned their text; the
\* toolers after k have not been entered and have appended nothing, and no
\* further step of the run follows.
C32_SequentialFailureStops ==
    /\ [](Strategy = "sequential" =>
             \A k \in 1..N : pc[k] = "raised" =>
                 /\ runState = "failed"
                 /\ result = <<>>
                 /\ error = IF attempts[k] = 0
                            THEN ConstructTools(toolers[k].variant).error
                            ELSE MakeError("Exception", <<"completion service">>)
                 /\ Len(answers) = k - 1
                 /\ \A j \in 1..(k - 1) : pc[j] = "done"
                 /\ \A j \in (k + 1)..N :
                        /\ pc[j] = "idle"
                        /\ attempts[j] = 0
                        /\ sent[j] = <<>>
                        /\ EntriesBy(chat, j) = <<>>)
    /\ [][~(Strategy = "sequential" /\ runState = "failed")]_vars

C32_Witness ==
    /\ Strategy = "sequential"
    /\ runState = "failed"
    /\ N = 3
    /\ pc = <<"done", "raised", "idle">>
    /\ attempts[2] > 0
    /\ Len(answers) = 1
    /\ answers[1].value # <<>>
    /\ result = <<>>

\* C33: in a parallel run every attempt of a tooler and every fragment a
\* tooler receives appends exactly one entry at the end of the shared history,
\* leaving the entries already there in place, and nothing else changes the
\* history.  So the history holds, for each tooler, one user entry per
\* attempt, and after each user entry the fragments of that attempt, in the
\* order received with none missing, before the tooler's next user entry.
C33_ParallelLogComplete ==
    /\ [][(Strategy = "parallel" /\ runState # "called") =>
             /\ \A i \in 1..N :
                    /\ attempts'[i] = attempts[i] + 1 =>
                           /\ Len(chat') = Len(chat) + 1
                           /\ SubSeq(chat', 1, Len(chat)) = chat
                           /\ chat'[Len(chat')].role = "user"
                           /\ chat'[Len(chat')].by = i
                    /\ fragments'[i] = fragments[i] + 1 =>
                           chat' = Append(chat, [role |-> "assistant",
                                                 content |-> FragmentText(fragments'[i]),
                                                 by |-> i])
             /\ chat' # chat =>
                    \E i \in 1..N : \/ attempts'[i] = attempts[i] + 1
                                     \/ fragments'[i] = fragments[i] + 1]_vars
    /\ [](Strategy = "parallel" /\ runState # "called" =>
             \A i \in 1..N :
                 LET mine == EntriesBy(chat, i) IN
                 /\ Len(UserEntriesBy(chat, i)) = attempts[i]
                 /\ Len(mine) >= attempts[i] + fragments[i]
                 /\ mine # <<>> => mine[1].role = "user"
                 /\ \A x \in 1..Len(mine) :
                        /\ mine[x].role \in {"user", "assistant"}
                        /\ mine[x].role = "assistant" =>
                               \E k \in 1..MaxFragments :
                                   /\ mine[x].content = FragmentText(k)
                                   /\ mine[x - 1].role =
                                          (IF k = 1 THEN "user" ELSE "assistant")
                                   /\ k > 1 => mine[x - 1].content = FragmentText(k - 1)
                 /\ \A x \in (Len(mine) - fragments[i] + 1)..Len(mine) :
                        /\ mine[x].role = "assistant"
                        /\ mine[x].content = FragmentText(x - (Len(mine) - fragments[i]))
                 /\ attempts[i] > 0 =>
                        mine[Len(mine) - fragments[i]].role = "user")

C33_Witness ==
    /\ Strategy = "parallel"
    /\ runState = "returned"
    /\ N = 2
    /\ attempts[1] = 2
    /\ attempts[2] = 1
    /\ EntriesBy(chat, 1)[2].role = "assistant"
    /\ EntriesBy(chat, 1)[3].role = "user"
    /\ Len(chat) = 3 + fragments[1] + 1 + fragments[2]
    /\ fragments[1] > 0 /\ fragments[2] > 0
    /\ chat[1].by = 1 /\ chat[2].by = 2 /\ chat[3].by = 1 /\ chat[4].by = 2

UnknownStrategy == Strategy \notin {"parallel", "sequential", "llm"}

\* C35: a run called with a strategy other than parallel, sequential and llm
\* fails and returns nothing; no history is created, no tooler's interact is
\* entered and no completion call is made.  A failure to resolve the assembly
\* or to create the toolers is the error of the run where there is one; only
\* otherwise is the error that of the unknown strategy, and then the
\* orchestrator holds the toolers created from the assembly.  No step of the
\* run follows the failure.
C35_UnknownStrategyFailsLate ==
    /\ [](Started /\ UnknownStrategy =>
             /\ runState = "failed"
             /\ result = <<>>
             /\ NoCompletionCall
             /\ \A i \in 1..N : pc[i] = "idle"
             /\ ~chatExists
             /\ chat = <<>>
             /\ IF ~Resolve(arg).ok
                THEN error = Resolve(arg).error /\ toolers = <<>>
                ELSE IF ~CreateToolers(Resolve(arg).assembly).ok
                THEN error = CreateToolers(Resolve(arg).assembly).error /\ toolers = <<>>
                ELSE /\ error = MakeError("AttributeError", <<"no attribute", Strategy>>)
                     /\ toolers = CreateToolers(Resolve(arg).assembly).toolers)
    /\ [][~(UnknownStrategy /\ runState = "failed")]_vars

C35_Witness ==
    /\ strategy = "turbo"
    /\ runState = "failed"
    /\ error = MakeError("AttributeError", <<"no attribute", "turbo">>)
    /\ N = 3
    /\ \A i \in 1..N : pc[i] = "idle" /\ attempts[i] = 0
    /\ chat = <<>>

\* C34: with a second run_interaction call under way on the orchestrator, the
\* toolers this call's strategy goes through are the ones created from this
\* call's assembly, whatever self.toolers holds: every user entry a tooler
\* has put into a history is rendered from the template of the agent at its
\* position in this call's assembly, and the plugins added to this call's
\* kernel are those of its own agents; and the toolers the second call's
\* strategy goes through are the ones created from the second call's assembly,
\* also after this call has assigned self.toolers.
C34_OwnToolersIterated ==
    /\ N > 0 => toolers = CreateToolers(Resolve(arg).assembly).toolers
    /\ \A log \in {chat, subChat} : \A x \in 1..Len(log) :
           (log[x].by > 0 /\ log[x].role = "user") =>
               /\ log[x].by \in 1..Len(Agents)
               /\ log[x].content[1] =
                      VariantTemplate(VariantOf(Agents[log[x].by].objective))
    /\ kernelPlugins \subseteq
           UNION {VariantTools(VariantOf(Agents[i].objective)) : i \in 1..Len(Agents)}
    /\ other # <<>> => other[1].toolers = CreateToolers(other[1].assembly).toolers

\* The second call assigned self.toolers after this call's first tooler had
\* entered and before its second tooler did; the run then returned.
C34_Witness ==
    /\ Strategy = "sequential"
    /\ runState = "returned"
    /\ N = 2
    /\ other # <<>>
    /\ selfToolers = other[1].toolers
    /\ Len(selfToolers) = 1
    /\ selfToolers[1].variant # toolers[1].variant
    /\ other[1].at >= 1
    /\ \E x \in 1..Len(chat) : chat[x].by = 2 /\ chat[x].role = "user" /\ x > other[1].at

====
